---- MODULE Spec2Model ----
(***************************************************************************)
(* The transparent price cache of go_cache.                                *)
(*                                                                         *)
(* Two revisions of the cache are in the repository and both are modelled, *)
(* selected by the variable revision, which never changes:                 *)
(*   "cache.go"  GetPricesFor tasks inline the lookup and the fetch, and   *)
(*               the coordinator writes every received result to the map   *)
(*               (src/cache.go; src/unnamed/part_001 is the same code      *)
(*               with a named ItemPrice struct);                           *)
(*   "part_000"  GetPricesFor tasks call GetPriceFor, which deletes an     *)
(*               expired entry before fetching and writes the map itself;  *)
(*               the coordinator only collects prices.                     *)
(*                                                                         *)
(* Threads: one client goroutine, which calls GetPriceFor or GetPricesFor  *)
(* (and is the coordinator of the batch while GetPricesFor runs), and one  *)
(* goroutine per item code of the batch.  Time is an integer clock.        *)
(***************************************************************************)
EXTENDS Integers, Sequences, FiniteSets, TLC

\* Bounds of the model.
MaxTime == 2
MaxBatch == 2
maxAge == 1

ItemCodes == {"a", "b"}
Prices == {10, 20}
ServiceErrors == {"e1", "e2"}
Revisions == {"cache.go", "part_000"}

VARIABLES
    revision,   \* which revision of the cache runs
    now,        \* time.Now()
    prices,     \* c.prices: item code -> ItemPriceCache, or Absent
    fetchedAt,  \* history: when the service produced the price stored under a code
    cl,         \* the client goroutine: its call, its position, its locals
    ret,        \* what the client's last call returned
    tasks,      \* the goroutines of the last GetPricesFor, by input position
    results,    \* GetPricesFor's results slice
    closed,     \* the deferred close(errCh), close(ch) of the last batch ran
    fatal,      \* the process died: a panic or a runtime fatal error
    batchErrs,  \* history: the errors the service produced for the current batch
    snap        \* history: the map when the client's call started

vars == <<revision, now, prices, fetchedAt, cl, ret, tasks, results, closed,
          fatal, batchErrs, snap>>

\* The nil error; an error is the sequence of the parts of its message.
NoErr == <<>>
\* What a map lookup of a missing key yields (ok = false, the zero item).
Absent == [Price |-> 0, Expiration |-> -1]
NoRet == [kind |-> "none", vals |-> <<>>, err |-> NoErr]

IsExpired_Inverted(item, t) == t < item.Expiration
\* ItemPriceCache.IsExpired at time t.
IsExpired_AtExpiry(item, t) == t >= item.Expiration
IsExpired(item, t) == t > item.Expiration

\* planExpiration(duration) called at time t.
planExpiration(t, duration) == t + duration

\* ItemPriceCache{Price: price, Expiration: planExpiration(c.maxAge)}
NewItem(price, t) == [Price |-> price, Expiration |-> planExpiration(t, maxAge)]

\* fmt.Errorf("getting item from service : %v", err.Error())
Errorf(err) == <<"getting item from service : ">> \o err

\* actualPriceService.GetPriceFor: a price, or a failure with some message.
ServiceOutcomes ==
    [price : Prices, err : {NoErr}] \cup
    [price : {0}, err : {<<m>> : m \in ServiceErrors}]

\* ok && !item.IsExpired()
Fresh(p, code, t) == p[code] # Absent /\ ~IsExpired(p[code], t)

\* part_000's GetPriceFor deletes an entry it finds expired.
Purges_Always(p, code, t) == revision = "part_000" /\ p[code] # Absent
Purges(p, code, t) ==
    revision = "part_000" /\ p[code] # Absent /\ IsExpired(p[code], t)

\* The map after the lookup at the head of GetPriceFor / of a batch task.
AfterLookup(p, code, t) ==
    IF Purges(p, code, t) THEN [p EXCEPT ![code] = Absent] ELSE p

\* The locals of one resolution of an item code
\* (born is history: when the service produced the price).
Resolution(code, pc) ==
    [code |-> code, pc |-> pc, price |-> 0, err |-> NoErr, born |-> -1]

\* The client goroutine: the locals of its call, and which call it is in.
Client(kind, code, pc) ==
    [kind |-> kind, code |-> code, pc |-> pc, price |-> 0, err |-> NoErr,
     born |-> -1]

\* The resolution after its lookup: served from the map, or on to the service.
LookedUp(r, hitPc) ==
    LET item == prices[r.code]
    IN IF Fresh(prices, r.code, now)
       THEN [r EXCEPT !.pc = hitPc, !.price = item.Price,
                      !.born = fetchedAt[r.code]]
       ELSE [r EXCEPT !.pc = "fetch"]

AfterServiceCall_NoReturn(err) == "store"
\* GetPriceFor after the service call: if err != nil it returns, else it stores.
AfterServiceCall(err) == IF err # NoErr THEN "return" ELSE "store"

\* The batch task after the service call: errCh <- err only on failure.
AfterFetch_Unreported(err) == "sendCh"
AfterFetch(err) == IF err # NoErr THEN "sendErr" ELSE "sendCh"

Collect_Twice(rs, price) == rs \o <<price, price>>
\* results = append(results, price)
Collect(rs, price) == Append(rs, price)

BatchComplete_Distinct(n, total) ==
    n = Cardinality({tasks[i].code : i \in DOMAIN tasks})
BatchComplete_OffByOne(n, total) == n >= total - 1
\* if len(results) == len(itemCodes)
BatchComplete(n, total) == n = total

AfterErrReceived_KeepsWaiting == "select"
\* case err := <-errCh: return nil, err
AfterErrReceived == "returning"

Live(i) == tasks[i].pc # "done"
NoLeftover == \A i \in DOMAIN tasks : ~Live(i)

BatchInputs == UNION {[1..n -> ItemCodes] : n \in 0..MaxBatch}

Init ==
    /\ revision \in Revisions
    /\ now = 0
    /\ prices = [k \in ItemCodes |-> Absent]
    /\ fetchedAt = [k \in ItemCodes |-> -1]
    /\ cl = Client("none", "a", "idle")
    /\ ret = NoRet
    /\ tasks = <<>>
    /\ results = <<>>
    /\ closed = FALSE
    /\ fatal = "none"
    /\ batchErrs = {}
    /\ snap = [k \in ItemCodes |-> Absent]

----------------------------------------------------------------------------
\* Time passes while goroutines wait for the price service or are yet to
\* run, and between the client's calls.  On the clock's scale the statements
\* of one goroutine that follow a service reply or a receive take no time,
\* and neither does a send that meets the waiting select.
Tick ==
    /\ fatal = "none"
    /\ now < MaxTime
    /\ cl.pc \notin {"store", "cstore", "returning"}
    /\ \A i \in DOMAIN tasks :
          /\ tasks[i].pc # "store"
          /\ cl.pc = "select" => tasks[i].pc \notin {"sendErr", "sendCh"}
    /\ now' = now + 1
    /\ UNCHANGED <<revision, prices, fetchedAt, cl, ret, tasks, results, closed,
                   fatal, batchErrs, snap>>

----------------------------------------------------------------------------
\* GetPriceFor called by the client.  (The client calls again only when every
\* goroutine of its last batch has ended; what they left is dropped then.)

CallGetPriceFor(code) ==
    /\ fatal = "none"
    /\ cl.pc = "idle"
    /\ NoLeftover
    /\ cl' = Client("single", code, "lookup")
    /\ ret' = NoRet
    /\ snap' = prices
    /\ tasks' = <<>>
    /\ results' = <<>>
    /\ closed' = FALSE
    /\ batchErrs' = {}
    /\ UNCHANGED <<revision, now, prices, fetchedAt, fatal>>

\* item, ok := c.prices[itemCode]; a fresh item is returned at once
PriceLookup ==
    /\ fatal = "none"
    /\ cl.kind = "single" /\ cl.pc = "lookup"
    /\ LET r == LookedUp(cl, "idle") IN
        /\ cl' = r
        /\ prices' = AfterLookup(prices, cl.code, now)
        /\ fetchedAt' = IF Purges(prices, cl.code, now)
                        THEN [fetchedAt EXCEPT ![cl.code] = -1] ELSE fetchedAt
        /\ ret' = IF r.pc = "idle"
                  THEN [kind |-> "single", vals |-> <<r.price>>, err |-> NoErr]
                  ELSE ret
    /\ UNCHANGED <<revision, now, tasks, results, closed, fatal, batchErrs, snap>>

\* price, err := c.actualPriceService.GetPriceFor(itemCode)
PriceFetch ==
    /\ fatal = "none"
    /\ cl.kind = "single" /\ cl.pc = "fetch"
    /\ \E o \in ServiceOutcomes :
        LET e == IF o.err = NoErr THEN NoErr ELSE Errorf(o.err)
            r == [cl EXCEPT !.price = o.price, !.err = e,
                            !.born = IF o.err = NoErr THEN now ELSE -1]
        IN IF AfterServiceCall(o.err) = "return"
           THEN /\ cl' = [r EXCEPT !.pc = "idle"]
                /\ ret' = [kind |-> "single", vals |-> <<0>>, err |-> e]
           ELSE /\ cl' = [r EXCEPT !.pc = "store"]
                /\ ret' = ret
    /\ UNCHANGED <<revision, now, prices, fetchedAt, tasks, results, closed,
                   fatal, batchErrs, snap>>

\* c.prices[itemCode] = ItemPriceCache{...}; return price, nil
PriceStore ==
    /\ fatal = "none"
    /\ cl.kind = "single" /\ cl.pc = "store"
    /\ prices' = [prices EXCEPT ![cl.code] = NewItem(cl.price, now)]
    /\ fetchedAt' = [fetchedAt EXCEPT ![cl.code] = cl.born]
    /\ cl' = [cl EXCEPT !.pc = "idle"]
    /\ ret' = [kind |-> "single", vals |-> <<cl.price>>, err |-> cl.err]
    /\ UNCHANGED <<revision, now, tasks, results, closed, fatal, batchErrs, snap>>

----------------------------------------------------------------------------
\* GetPricesFor: the client makes the channels, defers their close and starts
\* one goroutine per item code, then waits in the select loop.
\* (One batch's goroutines at a time: a new batch starts only when every
\* goroutine of the previous one has ended.)
CallGetPricesFor(codes) ==
    /\ fatal = "none"
    /\ cl.pc = "idle"
    /\ NoLeftover
    /\ tasks' = [i \in DOMAIN codes |-> Resolution(codes[i], "lookup")]
    /\ results' = <<>>
    /\ closed' = FALSE
    /\ batchErrs' = {}
    /\ cl' = Client("batch", "a", "select")
    /\ ret' = NoRet
    /\ snap' = prices
    /\ UNCHANGED <<revision, now, prices, fetchedAt, fatal>>

\* the task's lookup: inline in cache.go, the head of GetPriceFor in part_000
TaskLookup(i) ==
    /\ fatal = "none"
    /\ tasks[i].pc = "lookup"
    /\ tasks' = [tasks EXCEPT ![i] = LookedUp(tasks[i], "sendCh")]
    /\ prices' = AfterLookup(prices, tasks[i].code, now)
    /\ fetchedAt' = IF Purges(prices, tasks[i].code, now)
                    THEN [fetchedAt EXCEPT ![tasks[i].code] = -1] ELSE fetchedAt
    /\ UNCHANGED <<revision, now, cl, ret, results, closed, fatal, batchErrs, snap>>

\* the task's service call
TaskFetch(i) ==
    /\ fatal = "none"
    /\ tasks[i].pc = "fetch"
    /\ \E o \in ServiceOutcomes :
        /\ tasks' = [tasks EXCEPT ![i] =
              [@ EXCEPT !.price = o.price,
                        !.err = IF o.err = NoErr THEN NoErr
                                ELSE IF revision = "part_000" THEN Errorf(o.err)
                                ELSE o.err,
                        !.born = IF o.err = NoErr THEN now ELSE -1,
                        !.pc = IF revision = "part_000"
                                  /\ AfterServiceCall(o.err) = "store"
                               THEN "store" ELSE AfterFetch(o.err)]]
        /\ batchErrs' = IF o.err = NoErr THEN batchErrs ELSE batchErrs \cup {o.err}
    /\ UNCHANGED <<revision, now, prices, fetchedAt, cl, ret, results, closed,
                   fatal, snap>>

\* part_000: the map write at the end of the task's GetPriceFor
TaskStore(i) ==
    /\ fatal = "none"
    /\ tasks[i].pc = "store"
    /\ prices' = [prices EXCEPT ![tasks[i].code] = NewItem(tasks[i].price, now)]
    /\ fetchedAt' = [fetchedAt EXCEPT ![tasks[i].code] = tasks[i].born]
    /\ tasks' = [tasks EXCEPT ![i].pc = AfterFetch(tasks[i].err)]
    /\ UNCHANGED <<revision, now, cl, ret, results, closed, fatal, batchErrs, snap>>

\* case err := <-errCh, meeting task i's errCh <- err; the task goes on to ch <-
RecvErr(i) ==
    /\ fatal = "none"
    /\ cl.pc = "select" /\ ~closed
    /\ tasks[i].pc = "sendErr"
    /\ cl' = [cl EXCEPT !.pc = AfterErrReceived, !.err = tasks[i].err]
    /\ tasks' = [tasks EXCEPT ![i].pc = "sendCh"]
    /\ UNCHANGED <<revision, now, prices, fetchedAt, ret, results, closed, fatal,
                   batchErrs, snap>>

\* case result := <-ch, meeting task i's ch <- ...; results = append(results, price)
RecvResult(i) ==
    /\ fatal = "none"
    /\ cl.pc = "select" /\ ~closed
    /\ tasks[i].pc = "sendCh"
    /\ results' = Collect(results, tasks[i].price)
    /\ tasks' = [tasks EXCEPT ![i].pc = "done"]
    /\ cl' = [cl EXCEPT !.code = tasks[i].code, !.price = tasks[i].price,
                        !.born = tasks[i].born,
                        !.pc = IF revision = "cache.go" THEN "cstore"
                               ELSE IF BatchComplete(Len(results'), Len(tasks))
                               THEN "returning"
                               ELSE "select"]
    /\ UNCHANGED <<revision, now, prices, fetchedAt, ret, closed, fatal,
                   batchErrs, snap>>

\* cache.go: c.prices[code] = ItemPriceCache{...}; if len(results) == len(itemCodes)
CoordStore ==
    /\ fatal = "none"
    /\ cl.pc = "cstore"
    /\ prices' = [prices EXCEPT ![cl.code] = NewItem(cl.price, now)]
    /\ fetchedAt' = [fetchedAt EXCEPT ![cl.code] = cl.born]
    /\ cl' = [cl EXCEPT !.pc = IF BatchComplete(Len(results), Len(tasks))
                               THEN "returning" ELSE "select"]
    /\ UNCHANGED <<revision, now, ret, tasks, results, closed, fatal, batchErrs,
                   snap>>

\* return nil, err / return results, nil, and the deferred closes
CoordReturn ==
    /\ fatal = "none"
    /\ cl.pc = "returning"
    /\ closed' = TRUE
    /\ ret' = IF cl.err # NoErr
              THEN [kind |-> "batch", vals |-> <<>>, err |-> cl.err]
              ELSE [kind |-> "batch", vals |-> results, err |-> NoErr]
    /\ cl' = [cl EXCEPT !.pc = "idle"]
    /\ UNCHANGED <<revision, now, prices, fetchedAt, tasks, results, fatal,
                   batchErrs, snap>>

\* a task sending, or blocked in a send, on a closed channel panics
TaskPanic(i) ==
    /\ fatal = "none"
    /\ closed
    /\ tasks[i].pc \in {"sendErr", "sendCh"}
    /\ fatal' = "send on closed channel"
    /\ UNCHANGED <<revision, now, prices, fetchedAt, cl, ret, tasks, results,
                   closed, batchErrs, snap>>

----------------------------------------------------------------------------
\* The map is a plain Go map with no lock.  A goroutine is poised at a map
\* access when its next statement is one; two goroutines poised at once, one
\* of them at a write, access the map concurrently, and the runtime may end
\* the process ("concurrent map read and map write", "concurrent map writes").
Threads == {0} \cup DOMAIN tasks
ThreadRes(x) == IF x = 0 THEN cl ELSE tasks[x]
PoisedWrite(x) ==
    \/ ThreadRes(x).pc \in {"store", "cstore"}
    \/ ThreadRes(x).pc = "lookup" /\ Purges(prices, ThreadRes(x).code, now)
PoisedRead(x) == ThreadRes(x).pc = "lookup"
MapRace ==
    \E x, y \in Threads :
        /\ x # y
        /\ PoisedWrite(x)
        /\ PoisedWrite(y) \/ PoisedRead(y)

ConcurrentMapAccess ==
    /\ fatal = "none"
    /\ MapRace
    /\ fatal' = "concurrent map access"
    /\ UNCHANGED <<revision, now, prices, fetchedAt, cl, ret, tasks, results,
                   closed, batchErrs, snap>>

----------------------------------------------------------------------------
Next ==
    \/ Tick
    \/ \E code \in ItemCodes : CallGetPriceFor(code)
    \/ PriceLookup
    \/ PriceFetch
    \/ PriceStore
    \/ \E codes \in BatchInputs : CallGetPricesFor(codes)
    \/ \E i \in DOMAIN tasks : TaskLookup(i)
    \/ \E i \in DOMAIN tasks : TaskFetch(i)
    \/ \E i \in DOMAIN tasks : TaskStore(i)
    \/ \E i \in DOMAIN tasks : RecvErr(i)
    \/ \E i \in DOMAIN tasks : RecvResult(i)
    \/ CoordStore
    \/ CoordReturn
    \/ \E i \in DOMAIN tasks : TaskPanic(i)
    \/ ConcurrentMapAccess

Spec == Init /\ [][Next]_vars

----------------------------------------------------------------------------
\* What the claims speak of.

\* the steps of the client inside GetPricesFor's select loop and its return
CoordinatorStep ==
    \/ \E i \in DOMAIN tasks : RecvErr(i) \/ RecvResult(i)
    \/ CoordStore
    \/ CoordReturn

Returned(kind) == cl.kind = kind /\ cl.pc = "idle" /\ ret.kind = kind
EmptyMap == [k \in ItemCodes |-> Absent]
DistinctCodes == \A i, j \in DOMAIN tasks : tasks[i].code = tasks[j].code => i = j
\* the service's error inside an error GetPriceFor wrapped
Cause(err) == IF Len(err) > 1 THEN Tail(err) ELSE err
Mentions(err, code) == \E n \in DOMAIN err : err[n] = code
\* the age of the price stored under a code
Age(code) == now - fetchedAt[code]

\* this step is GetPriceFor's lookup of code by the client
ClientLooksUp(code) ==
    cl.kind = "single" /\ cl.pc = "lookup" /\ cl.code = code /\ cl' # cl
\* this step is task i's lookup
TaskLooksUp(i) == tasks[i].pc = "lookup" /\ tasks'[i] # tasks[i]

\* C1: a successful GetPricesFor returns, at each position, the value its own
\* task resolved for the item code at that position (input order).
C1_BatchOrder ==
    (Returned("batch") /\ ret.err = NoErr) =>
        /\ Len(ret.vals) = Len(tasks)
        /\ \A i \in DOMAIN tasks : ret.vals[i] = tasks[i].price

\* C2: once the service has failed for an item code of the batch, whatever
\* GetPricesFor returns is (no values, error), and the error is one the
\* service produced in this batch (as GetPriceFor wrapped it, in the revision
\* whose tasks call GetPriceFor).
C2_BatchErrorPropagation ==
    (Returned("batch") /\ batchErrs # {}) =>
        /\ ret.vals = <<>>
        /\ ret.err # NoErr
        /\ Cause(ret.err) \in batchErrs
        /\ revision = "cache.go" => ret.err \in batchErrs

\* C2's case: a batch returned an error although another of its tasks had
\* resolved a price and a result had already been collected.
C2_Witness ==
    /\ Returned("batch") /\ ret.err # NoErr
    /\ Len(results) >= 1
    /\ \E i \in DOMAIN tasks : tasks[i].err = NoErr /\ tasks[i].price \in Prices

\* C3: after GetPricesFor has returned an error and closed its channels, no
\* task of the batch panics on a send (each can still deliver and end).
C3_LateTasksDeliver ==
    (ret.kind = "batch" /\ ret.err # NoErr) => fatal # "send on closed channel"

\* C4: GetPricesFor with zero item codes returns: while it has not, the
\* client always has a step to take towards its return.
C4_EmptyBatchReturns ==
    (cl.kind = "batch" /\ Len(tasks) = 0 /\ cl.pc # "idle" /\ fatal = "none")
        => ENABLED CoordinatorStep

\* C5: a resolution is served from the map only when the stored price was
\* produced by the service at most maxAge ago.
C5_OnlyFreshServed ==
    [][/\ \A code \in ItemCodes :
            (ClientLooksUp(code) /\ cl'.pc = "idle") => Age(code) <= maxAge
       /\ \A i \in DOMAIN tasks :
            (TaskLooksUp(i) /\ tasks'[i].pc = "sendCh")
                => Age(tasks[i].code) <= maxAge]_vars

\* C6: a lookup of an item code whose stored price the service produced less
\* than maxAge ago is served from the map: it yields the stored price, calls
\* the service not at all and leaves the map as it is.
C6_Freshness ==
    [][/\ \A code \in ItemCodes :
            (ClientLooksUp(code) /\ prices[code] # Absent /\ Age(code) < maxAge)
                => /\ cl'.pc = "idle"
                   /\ ret' = [kind |-> "single", vals |-> <<prices[code].Price>>,
                               err |-> NoErr]
                   /\ prices' = prices
       /\ \A i \in DOMAIN tasks :
            (TaskLooksUp(i) /\ prices[tasks[i].code] # Absent
                            /\ Age(tasks[i].code) < maxAge)
                => /\ tasks'[i].pc = "sendCh"
                   /\ tasks'[i].price = prices[tasks[i].code].Price
                   /\ tasks'[i].err = NoErr
                   /\ prices' = prices]_vars

\* C6's case: GetPriceFor has returned a price from the map: no error, no
\* service call, the map untouched.
C6_Witness ==
    /\ revision = "cache.go"
    /\ Returned("single") /\ ret.err = NoErr
    /\ prices[cl.code] # Absent /\ prices = snap
    /\ ret.vals = <<prices[cl.code].Price>>

\* C7: GetPriceFor of an item code whose stored price the service produced
\* more than maxAge ago goes to the service, and when the service succeeds it
\* returns the new price and leaves it stored under the code.
C7_Expiry ==
    [][/\ \A code \in ItemCodes :
            (ClientLooksUp(code) /\ prices[code] # Absent /\ Age(code) > maxAge)
                => cl'.pc = "fetch"
       /\ (cl.kind = "single" /\ cl.pc = "store" /\ cl'.pc = "idle")
                => /\ ret'.vals = <<cl.price>>
                   /\ prices'[cl.code].Price = cl.price]_vars

\* C8 as claimed: when GetPriceFor returns a failure the map is exactly as it
\* was when the call started.
C8_FailureLeavesStore ==
    (Returned("single") /\ ret.err # NoErr) => prices = snap

\* C8 as amended: when GetPriceFor returns a failure no entry was written:
\* every entry is as it was when the call started, except that the revision
\* that purges expired entries has removed the expired entry of the failing code.
C8_FailureWritesNothing ==
    (Returned("single") /\ ret.err # NoErr) =>
        \A k \in ItemCodes :
            \/ prices[k] = snap[k]
            \/ /\ revision = "part_000" /\ k = cl.code
               /\ snap[k] # Absent /\ IsExpired(snap[k], now)
               /\ prices[k] = Absent

\* C8's case: GetPriceFor failed for a code whose entry was present but expired.
C8_Witness ==
    /\ revision = "part_000"
    /\ Returned("single") /\ ret.err # NoErr
    /\ snap[cl.code] # Absent /\ prices[cl.code] = Absent

\* C9: a batch of distinct item codes started on an empty map, for which the
\* service has not failed, does not crash, and when it returns it returns
\* success with every code stored under the price the service gave for it.
C9_FreshBatchCompletes ==
    (cl.kind = "batch" /\ Len(tasks) >= 1 /\ DistinctCodes /\ snap = EmptyMap
                       /\ batchErrs = {}) =>
        /\ fatal = "none"
        /\ cl.pc = "idle" =>
              /\ ret.err = NoErr
              /\ \A i \in DOMAIN tasks :
                    prices[tasks[i].code].Price = tasks[i].price

\* C10: the error GetPriceFor returns for an item code names that code.
C10_ErrorNamesKey ==
    (Returned("single") /\ ret.err # NoErr) => Mentions(ret.err, cl.code)

\* C11: no two goroutines are ever at accesses of the map at the same time
\* with one of them writing.
C11_MutualExclusion == ~MapRace

\* C12: the Expiration of every stored entry is the time the service produced
\* its price plus maxAge (nothing moves an Expiration without a new fetch).
C12_ExpiryFromFetch ==
    \A k \in ItemCodes :
        prices[k] # Absent => prices[k].Expiration = fetchedAt[k] + maxAge

\* C13 as claimed: a lookup of a stored item code is served from the map
\* exactly when now < Expiration; at now = Expiration it goes to the service.
C13_ServedBeforeExpiry ==
    [][/\ \A code \in ItemCodes :
            (ClientLooksUp(code) /\ prices[code] # Absent)
                => (cl'.pc = "idle" <=> now < prices[code].Expiration)
       /\ \A i \in DOMAIN tasks :
            (TaskLooksUp(i) /\ prices[tasks[i].code] # Absent)
                => (tasks'[i].pc = "sendCh"
                        <=> now < prices[tasks[i].code].Expiration)]_vars

\* C13 amended: a lookup of a stored item code is served from the map exactly
\* when now <= Expiration: at now = Expiration the item is still served, and
\* the service is called only once now > Expiration.
C13_ServedUntilExpiry ==
    [][/\ \A code \in ItemCodes :
            (ClientLooksUp(code) /\ prices[code] # Absent)
                => /\ cl'.pc = "idle" <=> now <= prices[code].Expiration
                   /\ cl'.pc = "fetch" <=> now > prices[code].Expiration
       /\ \A i \in DOMAIN tasks :
            (TaskLooksUp(i) /\ prices[tasks[i].code] # Absent)
                => /\ tasks'[i].pc = "sendCh"
                        <=> now <= prices[tasks[i].code].Expiration
                   /\ tasks'[i].pc = "fetch"
                        <=> now > prices[tasks[i].code].Expiration]_vars

\* C13's case: GetPriceFor has returned the stored price of an item code at
\* the very instant now = Expiration, without touching the map.
C13_Witness ==
    /\ Returned("single") /\ ret.err = NoErr
    /\ prices = snap
    /\ prices[cl.code] # Absent /\ prices[cl.code].Expiration = now
    /\ ret.vals = <<prices[cl.code].Price>>

\* C14 as claimed: no step removes an item code from the map.
C14_KeysOnlyGrow ==
    [][\A k \in ItemCodes : prices[k] # Absent => prices'[k] # Absent]_vars

\* C14 amended: an item code leaves the map only in the revision whose
\* GetPriceFor deletes expired items, only at a lookup of that very code, and
\* only when its item is expired at that lookup; every other step keeps every
\* item code of the map.
C14_OnlyExpiredRemoved ==
    [][\A k \in ItemCodes :
        (prices[k] # Absent /\ prices'[k] = Absent)
            => /\ revision = "part_000"
               /\ IsExpired(prices[k], now)
               /\ \/ ClientLooksUp(k)
                  \/ \E i \in DOMAIN tasks : tasks[i].code = k /\ TaskLooksUp(i)]_vars

\* C14's case: GetPriceFor found the item of its code expired and deleted it;
\* the code was in the map when the call started and is not any more, while the
\* service call is still to come.
C14_Witness ==
    /\ revision = "part_000"
    /\ cl.kind = "single" /\ cl.pc = "fetch"
    /\ snap[cl.code] # Absent /\ prices[cl.code] = Absent

\* The goroutine that called GetPricesFor keeps running whenever it can take a
\* step; nothing is assumed of the tasks, whose service calls may never return.
FairCoordinator == Spec /\ WF_vars(CoordinatorStep)

\* a task of the running batch holds an error GetPricesFor has not received
FailurePending ==
    /\ cl.kind = "batch" /\ cl.pc # "idle"
    /\ \E i \in DOMAIN tasks : tasks[i].pc = "sendErr"

\* C15: once a task of the batch has failed, GetPricesFor returns an error by
\* the coordinator's steps alone, whether or not any other task ever takes
\* another step (unless the process has crashed before).
C15_ReturnsWithoutWaiting ==
    FailurePending ~> ((Returned("batch") /\ ret.err # NoErr) \/ fatal # "none")

\* C15's case: GetPricesFor has returned the error while another task of the
\* batch is still inside its service call.
C15_Witness ==
    /\ Returned("batch") /\ ret.err # NoErr /\ fatal = "none"
    /\ \E i \in DOMAIN tasks : tasks[i].pc = "fetch"

\* the tasks of the batch that resolve a given item code
TasksOf(code) == {i \in DOMAIN tasks : tasks[i].code = code}
\* how many times a value occurs in a sequence
Count(seq, v) == Cardinality({n \in DOMAIN seq : seq[n] = v})

\* C16: a successful GetPricesFor returns one value per position of its input,
\* repeated item codes included, and an item code that was not in the map when
\* the call started is afterwards stored with a price one of its own tasks
\* resolved.
C16_NoDeduplication ==
    (Returned("batch") /\ ret.err = NoErr) =>
        /\ Len(ret.vals) = Len(tasks)
        /\ \A code \in ItemCodes :
            (snap[code] = Absent /\ TasksOf(code) # {})
                => /\ prices[code] # Absent
                   /\ \E i \in TasksOf(code) : prices[code].Price = tasks[i].price

\* C16's case: a batch naming twice an item code that was not in the map has
\* returned two values; the service was called once per occurrence (it gave
\* two different prices) and the map holds one of them.
C16_Witness ==
    /\ Returned("batch") /\ ret.err = NoErr
    /\ Len(tasks) = 2 /\ tasks[1].code = tasks[2].code
    /\ snap[tasks[1].code] = Absent
    /\ tasks[1].price # tasks[2].price
    /\ Len(ret.vals) = 2
    /\ prices[tasks[1].code].Price \in {tasks[1].price, tasks[2].price}

\* C17: the values a successful GetPricesFor returns for a non-empty batch are
\* as many as the item codes and are, as a multiset, the prices its tasks
\* resolved: each task's price once, none lost and none twice.
C17_ResultsArePermutation ==
    (Returned("batch") /\ ret.err = NoErr /\ Len(tasks) > 0) =>
        /\ Len(ret.vals) = Len(tasks)
        /\ \A v \in Prices \cup {0} :
            Count(ret.vals, v) = Cardinality({i \in DOMAIN tasks : tasks[i].price = v})

\* C17's case: a batch of two item codes has returned its two different
\* prices in the order opposite to the input's.
C17_Witness ==
    /\ Returned("batch") /\ ret.err = NoErr
    /\ Len(tasks) = 2 /\ tasks[1].code # tasks[2].code
    /\ tasks[1].price # tasks[2].price
    /\ ret.vals = <<tasks[2].price, tasks[1].price>>

\* C18: the price 0 a failed task sends on the result channel after its error
\* is never received: it is in no collected result, in no returned value, and
\* the map never holds it; a failed task never completes that send.
C18_PlaceholderUnseen ==
    /\ \A n \in DOMAIN results : results[n] # 0
    /\ ret.kind = "batch" => \A n \in DOMAIN ret.vals : ret.vals[n] # 0
    /\ \A k \in ItemCodes : prices[k] # Absent => prices[k].Price # 0
    /\ \A i \in DOMAIN tasks : tasks[i].err # NoErr => tasks[i].pc # "done"

\* C18's case: GetPricesFor has returned the error of a task that now stands at
\* its send of the price 0 on the result channel.
C18_Witness ==
    /\ Returned("batch") /\ ret.err # NoErr
    /\ \E i \in DOMAIN tasks :
        tasks[i].err # NoErr /\ tasks[i].price = 0 /\ tasks[i].pc = "sendCh"

\* C19: when GetPricesFor has returned successfully every task of the batch
\* has completed its send, so closing the channels meets no sender.
C19_NoPendingSender ==
    (Returned("batch") /\ ret.err = NoErr) =>
        /\ \A i \in DOMAIN tasks : tasks[i].pc = "done"
        /\ \A i \in DOMAIN tasks : ~ENABLED TaskPanic(i)
        /\ fatal # "send on closed channel"

\* C19's case: a batch of two tasks has returned successfully and its channels
\* are closed.
C19_Witness ==
    /\ Returned("batch") /\ ret.err = NoErr
    /\ closed /\ Len(tasks) = 2
    /\ \A i \in DOMAIN tasks : tasks[i].pc = "done" /\ tasks[i].err = NoErr
====
